---------------------------- MODULE Spec2Model ----------------------------
(***************************************************************************)
(* arena-card-generator: the run of process_arena_data.py (download the    *)
(* channels and blocks of a user, normalise the blocks, download their     *)
(* images) and the typst generation of generate_typst.py.                  *)
(*                                                                         *)
(* Every network call is an input of the model: the action that issues it  *)
(* draws the response (or the failure) from a bounded set.  The fields of  *)
(* a remote block other than its id are read by process_arena_data only;   *)
(* the model draws each of them in the step that reads it.  A local of a   *)
(* loop iteration or of a function that has returned is reset to its       *)
(* initial value: it is assigned again before it is read again.            *)
(***************************************************************************)
EXTENDS Integers, Sequences, FiniteSets, TLC

(***************************************************************************)
(* Bounds of the model.                                                    *)
(***************************************************************************)
MaxChannels == 2
MaxPerPage == 1
MaxTotal == 2
MaxTime == 2
MaxLines == 3
MaxBlocks == 9
MaxCalls == 3
MaxText == 4

BlockIds == {1, 2}
Titles == {"A", "B"}
Exts == {".jpg", ".png"}

\* Python's None for a file name, a date; a falsy id (block.get('id') absent or 0).
None == <<>>
NoId == 0
NoDate == 0
BadDate == -1

VARIABLES
    pc,                 \* position of the run
    channels,           \* channels_data['channels']
    ci,                 \* index of the channel being fetched
    block_to_channels,  \* dict block_id -> list of channel titles, in insertion order
    total_blocks,       \* channel_data['length'] of the channel being paged
    blocks_received,
    page,
    bi,                 \* index in unique_block_ids
    blocks,             \* raw block list, data['blocks']
    block_requests,     \* ids requested from the blocks API, in order
    failed_channels,    \* indices of the channels whose fetch raised
    repeat_seen,        \* a page held a block already recorded under the title
    first_received,     \* len(contents) of the first page of the channel
    page_requests,      \* the follow-up pages requested for the channel in
                        \* hand, or for the one just left, in order
    failed_blocks,      \* ids whose block fetch raised
    raw_saved,          \* the raw-data file has been written
    min_datetime,       \* the parsed min_updated_date, or NoDate
    pi,                 \* index in data['blocks'] of process_arena_data's loop
    block,              \* the raw block of the iteration, with the dates it carries
    block_date,
    image,              \* block.get('image')
    content,            \* block.get('content')
    downloaded_filename,
    response,           \* what the image request of the iteration met
    blocks_list,        \* the normalized blocks
    filtered_count,
    files,              \* the images directory as the run has met or left it:
                        \* file name -> "absent", "empty", "data"
    processed_saved,    \* the processed-data file has been written
    typst_blocks,       \* generate_typst_file: the blocks loaded from the file
    typst_i,            \* the loop variable i of range(0, len(blocks), 4)
    typst_code,         \* the grids and page breaks emitted after the header
    typst_written,      \* the typst file has been written
    lines,              \* format_content_as_typst: content.split('\n')
    fmt_i,              \* index of the line of the iteration
    formatted_lines,
    result,             \* the string returned
    calls,              \* download_image called on its own: the calls made
    escape_arg,         \* escape_typst_string called on its own: its argument
    escaped             \* and the string it returned

downloadVars == <<channels, ci, block_to_channels, total_blocks,
                  blocks_received, page, bi, block_requests, failed_channels,
                  repeat_seen, first_received, page_requests>>

processVars == <<min_datetime, pi, block, block_date, image, content,
                 downloaded_filename, response, blocks_list, filtered_count,
                 files, processed_saved>>

runVars == <<blocks, failed_blocks, raw_saved, downloadVars, processVars>>

typstVars == <<typst_blocks, typst_i, typst_code, typst_written>>

formatVars == <<lines, fmt_i, formatted_lines, result>>

\* the variables of the functions called on their own
unitVars == <<calls, escape_arg, escaped>>

\* the variables a run of process_arena_data.py leaves alone
otherVars == <<typstVars, formatVars, unitVars>>

vars == <<pc, runVars, typstVars, formatVars, unitVars>>

(***************************************************************************)
(* Helpers.                                                                *)
(***************************************************************************)
SeqsUpTo(S, n) == UNION {[1..k -> S] : k \in 0..n}

InSeq(x, s) == \E k \in 1..Len(s) : s[k] = x

SeqToSet(s) == {s[k] : k \in 1..Len(s)}

Distinct(s) == \A j, k \in 1..Len(s) : j # k => s[j] # s[k]

(***************************************************************************)
(* The inputs.                                                             *)
(***************************************************************************)
\* A channel of the channel list: its title and whether it has a slug.
ChannelRecords == [slug : BOOLEAN, title : Titles]

ChannelLists == SeqsUpTo(ChannelRecords, MaxChannels)

\* One page of a channel's contents: the ids of its items (NoId: no id).
PageContents == SeqsUpTo(BlockIds \cup {NoId}, MaxPerPage)

\* A timestamp string of a block or of the configuration: absent (NoDate),
\* malformed (BadDate), or the instant it denotes.
DateStrings == {NoDate, BadDate} \cup (1..MaxTime)

\* block.get('image'): absent, a descriptor without an original url, or a
\* descriptor with a url and a file name of extension ext.
NoImage == [kind |-> "none", ext |-> ""]

Images == {NoImage, [kind |-> "nourl", ext |-> ""]}
              \cup {[kind |-> "url", ext |-> e] : e \in Exts}

\* What an image request meets: an HTTP error, a network error, an empty
\* payload, or a payload whose magic bytes name a type (or none), which is
\* then written: wholly, or the write raises with nothing or with a part
\* of the payload on disk.
NoResponse == [kind |-> "none", magic |-> "", write |-> ""]

Responses == {[kind |-> k, magic |-> "", write |-> ""] :
                 k \in {"http_error", "url_error", "empty"}}
             \cup {[kind |-> "data", magic |-> m, write |-> w] :
                     m \in Exts \cup {""},
                     w \in {"ok", "error_empty", "error_partial"}}

FileNames == BlockIds \X Exts

\* A file of the images directory is absent, empty or holds data.  The
\* directory is made with exist_ok, so a run may find the file of a block as
\* an earlier run wrote it; a run that returns leaves no empty file, so the
\* file is found absent or with data.  The run looks at the file of a block
\* only while it handles that block, and there it is drawn.
Found == {"absent", "data"}

NoBlock == [id |-> NoId, channel_titles |-> <<>>,
            updated_at |-> NoDate, connected_at |-> NoDate]

(***************************************************************************)
(* block_to_channels: a dict, here the list of its items in insertion      *)
(* order.                                                                  *)
(***************************************************************************)
HasKey(btc, block_id) == \E k \in 1..Len(btc) : btc[k].id = block_id

Keys(btc) == [k \in 1..Len(btc) |-> btc[k].id]

\* the append of line 79 without the membership test of line 78
RecordBlock_NoTitleTest(btc, block_id, channel_title) ==
    IF block_id = NoId THEN btc
    ELSE LET b1 == IF HasKey(btc, block_id) THEN btc
                   ELSE Append(btc, [id |-> block_id, chans |-> <<>>])
         IN  [k \in 1..Len(b1) |->
                IF b1[k].id = block_id
                THEN [b1[k] EXCEPT !.chans = Append(@, channel_title)]
                ELSE b1[k]]

\* a new entry for every occurrence, without the key test of line 76
RecordBlock_NoKeyTest(btc, block_id, channel_title) ==
    IF block_id = NoId THEN btc
    ELSE Append(btc, [id |-> block_id, chans |-> <<channel_title>>])

\* lines 74-79 (and 100-105): record channel_title against block_id
RecordBlock(btc, block_id, channel_title) ==
    IF block_id = NoId THEN btc
    ELSE LET b1 == IF HasKey(btc, block_id) THEN btc
                   ELSE Append(btc, [id |-> block_id, chans |-> <<>>])
         IN  [k \in 1..Len(b1) |->
                IF b1[k].id = block_id /\ ~InSeq(channel_title, b1[k].chans)
                THEN [b1[k] EXCEPT !.chans = Append(@, channel_title)]
                ELSE b1[k]]

\* channel_title is already in the list of block_id
Recorded(btc, block_id, channel_title) ==
    \E k \in 1..Len(btc) : btc[k].id = block_id /\ InSeq(channel_title, btc[k].chans)

\* the loop over the items of one page
RECURSIVE RecordPage(_, _, _)
RecordPage(btc, contents, channel_title) ==
    IF contents = <<>> THEN btc
    ELSE RecordPage(RecordBlock(btc, Head(contents), channel_title),
                    Tail(contents), channel_title)

\* some item of the page is met when its pair is already recorded
RECURSIVE RepeatIn(_, _, _)
RepeatIn(btc, contents, channel_title) ==
    IF contents = <<>> THEN FALSE
    ELSE \/ Recorded(btc, Head(contents), channel_title)
         \/ RepeatIn(RecordBlock(btc, Head(contents), channel_title),
                     Tail(contents), channel_title)

(***************************************************************************)
(* download_arena_data                                                     *)
(***************************************************************************)
RunIdle ==
    /\ channels = <<>>
    /\ ci = 0
    /\ block_to_channels = <<>>
    /\ total_blocks = 0
    /\ blocks_received = 0
    /\ page = 0
    /\ bi = 0
    /\ blocks = <<>>
    /\ block_requests = <<>>
    /\ failed_channels = {}
    /\ repeat_seen = FALSE
    /\ first_received = 0
    /\ page_requests = <<>>
    /\ failed_blocks = {}
    /\ raw_saved = FALSE
    /\ min_datetime = NoDate
    /\ pi = 0
    /\ block = NoBlock
    /\ block_date = NoDate
    /\ image = NoImage
    /\ content = "unread"
    /\ downloaded_filename = None
    /\ response = NoResponse
    /\ blocks_list = <<>>
    /\ filtered_count = 0
    /\ files = [f \in FileNames |-> "absent"]
    /\ processed_saved = FALSE

TypstIdle ==
    /\ typst_blocks = <<>>
    /\ typst_i = 0
    /\ typst_code = <<>>
    /\ typst_written = FALSE

FormatIdle ==
    /\ lines = <<>>
    /\ fmt_i = 0
    /\ formatted_lines = <<>>
    /\ result = <<>>

ImageIdle == calls = 0

EscapeIdle ==
    /\ escape_arg = <<>>
    /\ escaped = <<>>

UnitIdle ==
    /\ ImageIdle
    /\ EscapeIdle

\* process_arena_data.py is started; no file of the images directory is met yet
Init ==
    /\ pc = "start"
    /\ RunIdle
    /\ TypstIdle
    /\ FormatIdle
    /\ UnitIdle

\* where the run is once the channel loop has moved on to index k
AfterChannel(k, chs) == IF k > Len(chs) THEN "blocks" ELSE "channels"

\* where the run is once the block loop has moved on to index k
AfterBlock(k, btc) == IF k > Len(btc) THEN "save_raw" ELSE "blocks"

\* the end of one iteration of the channel loop: the next channel, or the
\* block loop when there is none
NextChannel ==
    /\ ci' = ci + 1
    /\ pc' = IF AfterChannel(ci + 1, channels) = "channels" THEN "channels"
             ELSE AfterBlock(1, block_to_channels')
    /\ bi' = IF AfterChannel(ci + 1, channels) = "channels" THEN 0 ELSE 1
    /\ total_blocks' = 0
    /\ blocks_received' = 0
    /\ page' = 0
    /\ first_received' = 0

\* the handler ends the run
ChannelFetchFailed_Exits ==
    /\ failed_channels' = failed_channels \cup {ci}
    /\ block_to_channels' = block_to_channels
    /\ pc' = "exited"
    /\ UNCHANGED <<ci, bi, total_blocks, blocks_received, page,
                   first_received>>

\* the handler takes the title of the channel out of every list
ChannelFetchFailed_DropsChannel ==
    /\ failed_channels' = failed_channels \cup {ci}
    /\ block_to_channels' =
          [k \in 1..Len(block_to_channels) |->
              [block_to_channels[k] EXCEPT !.chans =
                  SelectSeq(@, LAMBDA t : t # channels[ci].title)]]
    /\ NextChannel

\* lines 111-113: the handler of a failed channel fetch
ChannelFetchFailed ==
    /\ failed_channels' = failed_channels \cup {ci}
    /\ block_to_channels' = block_to_channels
    /\ NextChannel

\* lines 34-42: the channel list is fetched; a failure exits the process
FetchChannelList ==
    /\ pc = "start"
    /\ UNCHANGED otherVars
    /\ \/ /\ pc' = "exited"
          /\ UNCHANGED <<channels, ci, bi>>
       \/ \E chs \in ChannelLists :
            /\ channels' = chs
            /\ ci' = 1
            /\ pc' = IF AfterChannel(1, chs) = "channels" THEN "channels"
                     ELSE AfterBlock(1, block_to_channels)
            /\ bi' = IF AfterChannel(1, chs) = "channels" THEN 0 ELSE 1
    /\ UNCHANGED <<block_to_channels, total_blocks, blocks_received, page,
                   blocks, block_requests, failed_channels, repeat_seen,
                   first_received, page_requests, failed_blocks, raw_saved,
                   processVars>>

\* lines 49-53: a channel without a slug is passed over
SkipChannel ==
    /\ pc = "channels"
    /\ UNCHANGED otherVars
    /\ ~channels[ci].slug
    /\ page_requests' = <<>>
    /\ UNCHANGED <<channels, block_to_channels, blocks, block_requests,
                   failed_channels, repeat_seen, failed_blocks, raw_saved,
                   processVars>>
    /\ NextChannel

\* the loop goes on with blocks_received = total_blocks as well
LoopContinues_AtTotal(received, total) == received <= total

\* line 86: the test of the while loop
LoopContinues(received, total) == received < total

\* lines 59-86: the first page of the channel
FetchFirstPage ==
    /\ pc = "channels"
    /\ UNCHANGED otherVars
    /\ channels[ci].slug
    /\ page_requests' = <<>>
    /\ \/ ChannelFetchFailed /\ UNCHANGED repeat_seen
       \/ \E length \in 0..MaxTotal, contents \in PageContents :
            /\ block_to_channels' =
                  RecordPage(block_to_channels, contents, channels[ci].title)
            /\ repeat_seen' = (repeat_seen \/
                  RepeatIn(block_to_channels, contents, channels[ci].title))
            /\ IF LoopContinues(Len(contents), length)
               THEN /\ total_blocks' = length
                    /\ blocks_received' = Len(contents)
                    /\ page' = 2
                    /\ first_received' = Len(contents)
                    /\ pc' = "pages"
                    /\ UNCHANGED <<ci, bi>>
               ELSE NextChannel
            /\ UNCHANGED failed_channels
    /\ UNCHANGED <<channels, blocks, block_requests, failed_blocks, raw_saved,
                   processVars>>

\* lines 86-109: one more page of the channel
FetchNextPage ==
    /\ pc = "pages"
    /\ UNCHANGED otherVars
    /\ LoopContinues(blocks_received, total_blocks)
    /\ page_requests' = Append(page_requests, page)
    /\ \/ ChannelFetchFailed /\ UNCHANGED repeat_seen
       \/ \E page_contents \in PageContents :
            /\ UNCHANGED failed_channels
            /\ repeat_seen' = (repeat_seen \/
                  RepeatIn(block_to_channels, page_contents,
                           channels[ci].title))
            /\ IF page_contents = <<>>
               THEN /\ block_to_channels' = block_to_channels
                    /\ NextChannel
               ELSE /\ block_to_channels' =
                         RecordPage(block_to_channels, page_contents,
                                    channels[ci].title)
                    /\ IF LoopContinues(blocks_received + Len(page_contents),
                                        total_blocks)
                       THEN /\ blocks_received' =
                                  blocks_received + Len(page_contents)
                            /\ page' = page + 1
                            /\ UNCHANGED <<pc, ci, bi, total_blocks,
                                           first_received>>
                       ELSE NextChannel
    /\ UNCHANGED <<channels, blocks, block_requests, failed_blocks, raw_saved,
                   processVars>>

\* a stub record is kept for the block whose fetch failed
BlockFetchFailed_KeepsStub(block_id) ==
    /\ failed_blocks' = failed_blocks \cup {block_id}
    /\ blocks' = Append(blocks, [id |-> block_id,
                                 channel_titles |-> block_to_channels[bi].chans])

\* lines 134-136: the handler of a failed block fetch
BlockFetchFailed(block_id) ==
    /\ failed_blocks' = failed_blocks \cup {block_id}
    /\ blocks' = blocks

\* lines 120-136: the block of unique_block_ids[bi] is fetched; the body
\* carries the id that was asked for, or none
FetchBlock ==
    /\ pc = "blocks"
    /\ UNCHANGED otherVars
    /\ LET block_id == Keys(block_to_channels)[bi] IN
        /\ block_requests' = Append(block_requests, block_id)
        /\ \/ BlockFetchFailed(block_id)
           \/ \E body_id \in {block_id, NoId} :
                /\ blocks' = Append(blocks,
                      [id |-> body_id,
                       channel_titles |-> block_to_channels[bi].chans])
                /\ UNCHANGED failed_blocks
    /\ bi' = bi + 1
    /\ pc' = AfterBlock(bi + 1, block_to_channels)
    /\ page_requests' = <<>>
    /\ UNCHANGED <<channels, ci, block_to_channels, total_blocks,
                   blocks_received, page, failed_channels, repeat_seen,
                   first_received, raw_saved, processVars>>

\* lines 138-144: the raw data is written and download_arena_data returns
SaveRawData ==
    /\ pc = "save_raw"
    /\ UNCHANGED otherVars
    /\ raw_saved' = TRUE
    /\ pc' = "begin_process"
    /\ channels' = <<>>
    /\ ci' = 0
    /\ block_to_channels' = <<>>
    /\ bi' = 0
    /\ block_requests' = <<>>
    /\ failed_channels' = {}
    /\ repeat_seen' = FALSE
    /\ page_requests' = <<>>
    /\ UNCHANGED <<total_blocks, blocks_received, page, first_received,
                   blocks, failed_blocks, processVars>>

(***************************************************************************)
(* download_image                                                          *)
(***************************************************************************)
\* datetime.fromisoformat: the instant, or NoDate when it raises ValueError
ParseDate(s) == IF s \in 1..MaxTime THEN s ELSE NoDate

\* the handlers without the unlink
ErrorCleanup_KeepsFile(fs, output_path) == fs

\* lines 199-214: the three handlers unlink the output file when it is empty
ErrorCleanup(fs, output_path) ==
    IF fs[output_path] = "empty"
    THEN [fs EXCEPT ![output_path] = "absent"]
    ELSE fs

\* lines 174-189: the name the payload is written under
DetectedName(block_id, ext, magic) ==
    IF magic # "" /\ magic # ext THEN <<block_id, magic>> ELSE <<block_id, ext>>

\* lines 146-214: the name returned (or None), the images directory after
\* the call and whether a request was issued
download_image(fs, block_id, ext, net) ==
    LET safe_filename == <<block_id, ext>> IN
    IF fs[safe_filename] = "data"
    THEN [ret |-> safe_filename, files |-> fs, requested |-> FALSE]
    ELSE IF net.kind \in {"http_error", "url_error"}
    THEN [ret |-> None, files |-> ErrorCleanup(fs, safe_filename),
          requested |-> TRUE]
    ELSE IF net.kind = "empty"
    THEN [ret |-> None, files |-> fs, requested |-> TRUE]
    ELSE LET output_path == DetectedName(block_id, ext, net.magic) IN
         IF net.write = "ok"
         THEN [ret |-> output_path,
               files |-> [fs EXCEPT ![output_path] = "data"],
               requested |-> TRUE]
         ELSE IF net.write = "error_empty"
         THEN [ret |-> None,
               files |-> ErrorCleanup([fs EXCEPT ![output_path] = "empty"],
                                      output_path),
               requested |-> TRUE]
         ELSE [ret |-> None,
               files |-> ErrorCleanup([fs EXCEPT ![output_path] = "data"],
                                      output_path),
               requested |-> TRUE]

\* download_image called again and again on one images directory, as the
\* runs of process_arena_data.py call it for an image block: the first call
\* fixes the url, the block id and the source file name, the later calls
\* pass the same.
ImageInit ==
    /\ pc = "image_call"
    /\ RunIdle
    /\ TypstIdle
    /\ FormatIdle
    /\ UnitIdle

\* lines 146-214: one call; what the request meets is drawn when it is issued
CallDownloadImage ==
    /\ pc = "image_call"
    /\ calls < MaxCalls
    /\ \E block_id \in BlockIds, ext \in Exts, net \in Responses :
        LET dl == download_image(files, block_id, ext, net) IN
        /\ calls > 0 => block_id = block.id /\ ext = image.ext
        /\ ~dl.requested => net = CHOOSE r \in Responses : TRUE
        /\ block' = [NoBlock EXCEPT !.id = block_id]
        /\ image' = [kind |-> "url", ext |-> ext]
        /\ downloaded_filename' = dl.ret
        /\ response' = IF dl.requested THEN net ELSE NoResponse
        /\ files' = dl.files
    /\ calls' = calls + 1
    /\ UNCHANGED <<pc, blocks, failed_blocks, raw_saved, downloadVars,
                   min_datetime, pi, block_date, content, blocks_list,
                   filtered_count, processed_saved, typstVars, formatVars,
                   escape_arg, escaped>>

ImageNext == CallDownloadImage

SpecImage == ImageInit /\ [][ImageNext]_vars

(***************************************************************************)
(* process_arena_data                                                      *)
(***************************************************************************)
\* the date of connected_at whenever it parses
BlockDate_ConnectedWins(updated_at_str, connected_at_str) ==
    IF ParseDate(connected_at_str) # NoDate THEN ParseDate(connected_at_str)
    ELSE ParseDate(updated_at_str)

\* lines 253-273: the more recent of the two dates that parse
BlockDate(updated_at_str, connected_at_str) ==
    LET updated_at == ParseDate(updated_at_str)
        connected_at == ParseDate(connected_at_str)
    IN  IF connected_at # NoDate
            /\ (updated_at = NoDate \/ connected_at > updated_at)
        THEN connected_at
        ELSE updated_at

\* content is kept only when no image file was recorded
ContentField_OnlyWithoutImage(file, text) ==
    IF text # "" /\ file = None THEN text ELSE ""

\* lines 328-331: block_data['content'], "" when the key is not set
ContentField(file, text) == IF text # "" THEN text ELSE ""

\* lines 324-325: block_data['image_file'], None when the key is not set
ImageFileField(img, block_id, file) == file

\* lines 219-237: the minimum date of the configuration is parsed
BeginProcess ==
    /\ pc = "begin_process"
    /\ UNCHANGED otherVars
    /\ \E min_updated_date \in DateStrings :
         min_datetime' = ParseDate(min_updated_date)
    /\ pi' = 1
    /\ pc' = "process"
    /\ UNCHANGED <<blocks, failed_blocks, raw_saved, downloadVars, block,
                   block_date, image, content, downloaded_filename, response,
                   blocks_list, filtered_count, files, processed_saved>>

\* lines 240-278: the next raw block; it is passed over when it has no id
\* or when its date is older than the minimum
FilterBlock ==
    /\ pc = "process"
    /\ UNCHANGED otherVars
    /\ pi <= Len(blocks)
    /\ \E updated_at_str \in DateStrings, connected_at_str \in DateStrings :
        LET d == BlockDate(updated_at_str, connected_at_str) IN
        /\ block' = [id |-> blocks[pi].id,
                     channel_titles |-> blocks[pi].channel_titles,
                     updated_at |-> updated_at_str,
                     connected_at |-> connected_at_str]
        /\ IF blocks[pi].id = NoId
           THEN /\ pi' = pi + 1
                /\ UNCHANGED <<pc, block_date, filtered_count>>
           ELSE IF min_datetime # NoDate /\ d # NoDate /\ d < min_datetime
           THEN /\ block_date' = d
                /\ filtered_count' = filtered_count + 1
                /\ pi' = pi + 1
                /\ UNCHANGED pc
           ELSE /\ block_date' = IF min_datetime # NoDate THEN d ELSE NoDate
                /\ pc' = "normalize"
                /\ UNCHANGED <<pi, filtered_count>>
    /\ image' = NoImage
    /\ content' = "unread"
    /\ downloaded_filename' = None
    /\ response' = NoResponse
    /\ UNCHANGED <<blocks, failed_blocks, raw_saved, downloadVars,
                   min_datetime, blocks_list, files, processed_saved>>

\* lines 280-333: the record of the block is built, its image downloaded,
\* and the record appended
NormalizeBlock ==
    /\ pc = "normalize"
    /\ UNCHANGED otherVars
    /\ \E img \in Images, text \in {"", "text"}, net \in Responses,
          found \in Found :
        LET images_dir == IF img.kind = "url"
                          THEN [files EXCEPT ![<<block.id, img.ext>>] = found]
                          ELSE files
            dl == IF img.kind = "url"
                  THEN download_image(images_dir, block.id, img.ext, net)
                  ELSE [ret |-> None, files |-> files, requested |-> FALSE]
        IN
        /\ image' = img
        /\ content' = text
        /\ img.kind # "url" => found = "absent"
        /\ ~dl.requested => net = CHOOSE r \in Responses : TRUE
        /\ response' = IF dl.requested THEN net ELSE NoResponse
        /\ downloaded_filename' = dl.ret
        /\ files' = dl.files
        /\ blocks_list' = Append(blocks_list,
              [id |-> block.id,
               channels |-> block.channel_titles,
               image_url |-> (img.kind = "url"),
               image_file |-> ImageFileField(img, block.id, dl.ret),
               content |-> ContentField(dl.ret, text)])
    /\ block' = [block EXCEPT !.updated_at = NoDate, !.connected_at = NoDate]
    /\ block_date' = NoDate
    /\ pi' = pi + 1
    /\ pc' = "process"
    /\ UNCHANGED <<blocks, failed_blocks, raw_saved, downloadVars,
                   min_datetime, filtered_count, processed_saved>>

\* lines 335-345: the processed data is written and process_arena_data
\* returns blocks_list
SaveProcessed ==
    /\ pc = "process"
    /\ UNCHANGED otherVars
    /\ pi > Len(blocks)
    /\ processed_saved' = TRUE
    /\ pc' = "done"
    /\ pi' = 0
    /\ block' = NoBlock
    /\ image' = NoImage
    /\ content' = "unread"
    /\ downloaded_filename' = None
    /\ response' = NoResponse
    /\ UNCHANGED <<blocks, failed_blocks, raw_saved, downloadVars,
                   min_datetime, block_date, blocks_list, filtered_count,
                   files>>

(***************************************************************************)
(* generate_typst.py.  A string is the sequence of its characters.         *)
(***************************************************************************)
Space == " "

Indent == <<" ", " ", " ", " ", " ", " ">>

LineBreakLine ==
    <<" ", " ", " ", " ", " ", " ", "#", "l", "i", "n", "e", "b", "r",
          "e", "a", "k", "(", ")">>

HeadingOpen13 ==
    <<" ", " ", " ", " ", " ", " ", "#", "t", "e", "x", "t", "(", "w",
          "e", "i", "g", "h", "t", ":", " ", "\"", "b", "o", "l", "d",
          "\"", ",", " ", "s", "i", "z", "e", ":", " ", "1", "3", "p",
          "t", ")", "[">>

HeadingOpen12 ==
    <<" ", " ", " ", " ", " ", " ", "#", "t", "e", "x", "t", "(", "w",
          "e", "i", "g", "h", "t", ":", " ", "\"", "b", "o", "l", "d",
          "\"", ",", " ", "s", "i", "z", "e", ":", " ", "1", "2", "p",
          "t", ")", "[">>

HeadingOpen11 ==
    <<" ", " ", " ", " ", " ", " ", "#", "t", "e", "x", "t", "(", "w",
          "e", "i", "g", "h", "t", ":", " ", "\"", "b", "o", "l", "d",
          "\"", ",", " ", "s", "i", "z", "e", ":", " ", "1", "1", "p",
          "t", ")", "[">>

HeadingClose == <<"]">>

StartsWith(s, prefix) ==
    Len(s) >= Len(prefix) /\ SubSeq(s, 1, Len(prefix)) = prefix

\* str.strip(), the space being the white space of the model
RECURSIVE LStrip(_)
LStrip(s) == IF s # <<>> /\ Head(s) = Space THEN LStrip(Tail(s)) ELSE s

RECURSIVE RStrip(_)
RStrip(s) ==
    IF s # <<>> /\ s[Len(s)] = Space THEN RStrip(SubSeq(s, 1, Len(s) - 1))
    ELSE s

Strip(s) == RStrip(LStrip(s))

\* str.replace of the one-character string ch by the string by
RECURSIVE Replace(_, _, _)
Replace(s, ch, by) ==
    IF s = <<>> THEN <<>>
    ELSE (IF Head(s) = ch THEN by ELSE <<Head(s)>>) \o Replace(Tail(s), ch, by)

\* escape_typst_string with the backslashes escaped last
escape_typst_string_BackslashLast(text) ==
    Replace(Replace(Replace(text, "\"", <<"\\", "\"">>),
                    "#", <<"\\", "#">>),
            "\\", <<"\\", "\\">>)

\* lines 59-69: backslashes first, then quotes, then hashes
escape_typst_string(text) ==
    Replace(Replace(Replace(text, "\\", <<"\\", "\\">>),
                    "\"", <<"\\", "\"">>),
            "#", <<"\\", "#">>)

\* line 109: the next line starts neither with '-' nor with '*' and is not
\* empty
NextLineAllowsBreak(next_stripped) ==
    /\ ~StartsWith(next_stripped, <<"-">>)
    /\ ~StartsWith(next_stripped, <<"*">>)
    /\ next_stripped # <<>>

\* lines 80-110: what the iteration on line i of ls appends to
\* formatted_lines
FormatLine(ls, i) ==
    LET line == ls[i]
        stripped == Strip(line)
    IN  IF StartsWith(stripped, <<"#", " ">>)
        THEN <<HeadingOpen13
                \o escape_typst_string(SubSeq(stripped, 3, Len(stripped)))
                \o HeadingClose>>
        ELSE IF StartsWith(stripped, <<"#", "#", " ">>)
        THEN <<HeadingOpen12
                \o escape_typst_string(SubSeq(stripped, 4, Len(stripped)))
                \o HeadingClose>>
        ELSE IF StartsWith(stripped, <<"#", "#", "#", " ">>)
        THEN <<HeadingOpen11
                \o escape_typst_string(SubSeq(stripped, 5, Len(stripped)))
                \o HeadingClose>>
        ELSE IF stripped = <<>>
        THEN << <<>> >>
        ELSE IF \/ StartsWith(stripped, <<"-", " ">>)
                \/ StartsWith(stripped, <<"*", " ">>)
        THEN <<Indent \o escape_typst_string(line)>>
        ELSE <<Indent \o escape_typst_string(line)>>
             \o (IF i + 1 <= Len(ls) /\ NextLineAllowsBreak(Strip(ls[i + 1]))
                 THEN <<LineBreakLine>>
                 ELSE <<>>)

\* lines 112-114: a trailing line break is dropped
DropTrailingBreak(fl) ==
    IF fl # <<>> /\ fl[Len(fl)] = LineBreakLine
    THEN SubSeq(fl, 1, Len(fl) - 1)
    ELSE fl

\* line 116: '\n'.join
RECURSIVE Join(_)
Join(fl) ==
    IF fl = <<>> THEN <<>>
    ELSE IF Len(fl) = 1 THEN fl[1]
    ELSE fl[1] \o <<"\n">> \o Join(Tail(fl))

\* The lines the contents are made of.
SampleLines ==
    { <<"A">>, <<"B", " ">>, <<>>, <<" ">>,
      <<"-", " ", "i">>, <<" ", "*", " ", "i">>,
      <<"-", "x">>, <<"*", "x", "*">>,
      <<"#", " ", "H">>, <<"#", "#", " ", "H">>,
      <<"#", "#", "#", " ", "#">>, <<"a", "#", "\"", "\\">> }

\* content.split('\n') of a content: at least one line
Contents == SeqsUpTo(SampleLines, MaxLines) \ {<<>>}

FormatInit ==
    /\ pc = "format_start"
    /\ RunIdle
    /\ TypstIdle
    /\ UnitIdle
    /\ lines \in Contents
    /\ fmt_i = 0
    /\ formatted_lines = <<>>
    /\ result = <<>>

\* lines 73-77: an empty content returns the empty string
FormatStart ==
    /\ pc = "format_start"
    /\ IF lines = << <<>> >>
       THEN pc' = "format_done" /\ UNCHANGED fmt_i
       ELSE pc' = "format_loop" /\ fmt_i' = 1
    /\ UNCHANGED <<lines, formatted_lines, result, runVars, typstVars, unitVars>>

\* lines 79-110: one iteration of the loop over the lines
FormatStep ==
    /\ pc = "format_loop"
    /\ fmt_i <= Len(lines)
    /\ formatted_lines' = formatted_lines \o FormatLine(lines, fmt_i)
    /\ fmt_i' = fmt_i + 1
    /\ UNCHANGED <<pc, lines, result, runVars, typstVars, unitVars>>

\* lines 112-116: the post-pass and the join
FormatReturn ==
    /\ pc = "format_loop"
    /\ fmt_i > Len(lines)
    /\ formatted_lines' = DropTrailingBreak(formatted_lines)
    /\ result' = Join(formatted_lines')
    /\ pc' = "format_done"
    /\ UNCHANGED <<lines, fmt_i, runVars, typstVars, unitVars>>

FormatNext ==
    \/ FormatStart
    \/ FormatStep
    \/ FormatReturn

SpecFormat == FormatInit /\ [][FormatNext]_vars

\* The characters escape_typst_string tells apart: the backslash, the double
\* quote, the hash, and any other.
Chars == {"\\", "\"", "#", "a"}

\* escape_typst_string called on a string of up to MaxText characters
EscapeInit ==
    /\ pc = "escape_call"
    /\ RunIdle
    /\ TypstIdle
    /\ FormatIdle
    /\ ImageIdle
    /\ \E n \in 0..MaxText : escape_arg \in [1..n -> Chars]
    /\ escaped = <<>>

\* lines 59-69: the call returns
Escape ==
    /\ pc = "escape_call"
    /\ escaped' = escape_typst_string(escape_arg)
    /\ pc' = "escape_done"
    /\ UNCHANGED <<escape_arg, calls, runVars, typstVars, formatVars>>

EscapeNext == Escape

SpecEscape == EscapeInit /\ [][EscapeNext]_vars

(***************************************************************************)
(* generate_typst_file                                                     *)
(***************************************************************************)
cards_per_page == 4

\* What a normalized block carries: an image file, a content, or both.
BlockKinds == {[image_file |-> TRUE, content |-> FALSE],
               [image_file |-> FALSE, content |-> TRUE],
               [image_file |-> TRUE, content |-> TRUE]}

\* lines 118-175: the card of a block; the image comes before the content
generate_card(b) ==
    [id |-> b.id,
     part |-> IF b.image_file THEN "img-path"
              ELSE IF b.content THEN "content" ELSE "none"]

\* blocks[i:i + cards_per_page], i counted from 0
PageBlocks(bs, i) ==
    SubSeq(bs, i + 1, IF i + cards_per_page < Len(bs) THEN i + cards_per_page
                      ELSE Len(bs))

\* a page break follows the grid unless no block follows it: with <= for <
PageBreakDue_OffByOne(i, n) == i + cards_per_page <= n

\* line 305: a page break follows the grid when blocks are left
PageBreakDue(i, n) == i + cards_per_page < n

\* the processed-data file holds up to MaxBlocks blocks; block k has id k
TypstInit ==
    /\ pc = "typst_loop"
    /\ RunIdle
    /\ FormatIdle
    /\ UnitIdle
    /\ \E n \in 0..MaxBlocks : \E f \in [1..n -> BlockKinds] :
          typst_blocks = [k \in 1..n |->
                            [id |-> k, image_file |-> f[k].image_file,
                             content |-> f[k].content]]
    /\ typst_i = 0
    /\ typst_code = <<>>
    /\ typst_written = FALSE

\* lines 287-306: one iteration: the grid of the page and its page break
GridStep ==
    /\ pc = "typst_loop"
    /\ typst_i < Len(typst_blocks)
    /\ LET page_blocks == PageBlocks(typst_blocks, typst_i)
           card_codes == [k \in 1..Len(page_blocks) |->
                             generate_card(page_blocks[k])]
       IN  typst_code' =
              typst_code
              \o <<[kind |-> "grid", cards |-> card_codes]>>
              \o (IF PageBreakDue(typst_i, Len(typst_blocks))
                  THEN <<[kind |-> "pagebreak", cards |-> <<>>]>>
                  ELSE <<>>)
    /\ typst_i' = typst_i + cards_per_page
    /\ UNCHANGED <<pc, typst_blocks, typst_written, runVars, formatVars,
                   unitVars>>

\* lines 308-316: the file is written
WriteTypst ==
    /\ pc = "typst_loop"
    /\ typst_i >= Len(typst_blocks)
    /\ typst_written' = TRUE
    /\ pc' = "typst_done"
    /\ UNCHANGED <<typst_blocks, typst_i, typst_code, runVars, formatVars,
                   unitVars>>

TypstNext ==
    \/ GridStep
    \/ WriteTypst

SpecTypst == TypstInit /\ [][TypstNext]_vars

Next ==
    \/ FetchChannelList
    \/ SkipChannel
    \/ FetchFirstPage
    \/ FetchNextPage
    \/ FetchBlock
    \/ SaveRawData
    \/ BeginProcess
    \/ FilterBlock
    \/ NormalizeBlock
    \/ SaveProcessed

Spec == Init /\ [][Next]_vars

\* The run is one sequential process: it takes its next step as long as it
\* has one (every network call returns or raises).
FairSpec == Spec /\ WF_vars(Next)

(***************************************************************************)
(* Properties of the run.                                                  *)
(***************************************************************************)
IdsOf(list) == {list[k].id : k \in 1..Len(list)}

LastOf(list) == list[Len(list)]

\* C1: in block_to_channels (and in the channel_titles copied from it into
\* the raw blocks) the channel list of a block identifier holds a channel
\* name at most once, however often the pages of the channel return the
\* block.
C1_ChannelListedOnce ==
    /\ \A k \in 1..Len(block_to_channels) :
          Distinct(block_to_channels[k].chans)
    /\ \A k \in 1..Len(blocks) : Distinct(blocks[k].channel_titles)

\* all channels are fetched, and some page returned a block that was
\* already recorded under the title of its channel
C1_Witness ==
    /\ pc = "blocks"
    /\ repeat_seen
    /\ \E k \in 1..Len(block_to_channels) :
          Len(block_to_channels[k].chans) = 2

\* C3: one block fetch is issued per distinct block identifier gathered from
\* the channels, and the raw block list and the normalized list hold at most
\* one record per block identifier.
C3_OneFetchPerBlock ==
    /\ Distinct(block_requests)
    /\ SeqToSet(block_requests) \subseteq IdsOf(block_to_channels)
    /\ pc = "save_raw" =>
          /\ SeqToSet(block_requests) = IdsOf(block_to_channels)
          /\ Len(block_requests) = Cardinality(IdsOf(block_to_channels))
    /\ \A j, k \in 1..Len(blocks) :
          j # k /\ blocks[j].id # NoId => blocks[j].id # blocks[k].id
    /\ \A j, k \in 1..Len(blocks_list) :
          j # k => blocks_list[j].id # blocks_list[k].id

\* every block is fetched; one of them was met in two channels and again on
\* a later page
C3_Witness ==
    /\ pc = "save_raw"
    /\ repeat_seen
    /\ Len(block_requests) = 2
    /\ Len(blocks) = 2
    /\ \E k \in 1..Len(block_to_channels) :
          Len(block_to_channels[k].chans) = 2

\* the later of the timestamps of b that parse, NoDate when none does
EffectiveDate(b) ==
    LET parsed == {d \in {b.updated_at, b.connected_at} : d \in 1..MaxTime}
    IN  IF parsed = {} THEN NoDate
        ELSE CHOOSE m \in parsed : \A d \in parsed : d <= m

\* the block of the iteration goes on to be normalized, or is in the output
Retained == pc = "normalize" \/ block.id \in IdsOf(blocks_list)

OnlyTitle(k) ==
    \A j \in 1..Len(channels) : j # k => channels[j].title # channels[k].title

\* C5 as stated: the name of a channel whose fetch failed is recorded
\* against no block identifier.
C5_FailedChannelRecordsNothing ==
    \A k \in failed_channels :
        OnlyTitle(k) =>
            \A e \in 1..Len(block_to_channels) :
                ~InSeq(channels[k].title, block_to_channels[e].chans)

\* C5 as amended: a failed page fetch leaves the aggregated mapping as it
\* is (what other channels recorded, and what earlier pages of the channel
\* recorded, stays), no further page of the channel is fetched and the run
\* goes on with the next channel.
C5_FailureLeavesMappingAndGoesOn ==
    [][(failed_channels' # failed_channels /\ failed_channels' # {}) =>
          /\ block_to_channels' = block_to_channels
          /\ ci' = ci + 1
          /\ pc' \in {"channels", "blocks", "save_raw"}]_vars

\* the second page of channel 1 failed after its first page was recorded,
\* and the run is at channel 2
C5_Witness ==
    /\ pc = "channels"
    /\ ci = 2
    /\ failed_channels = {1}
    /\ OnlyTitle(1)
    /\ \E e \in 1..Len(block_to_channels) :
          InSeq(channels[1].title, block_to_channels[e].chans)

\* C6: a block identifier whose fetch failed has no record in the raw block
\* list nor in the normalized output, and every fetched block with an
\* identifier is in the normalized output unless the date filter dropped it.
C6_FailedBlockAbsent ==
    /\ \A id \in failed_blocks :
          id \notin IdsOf(blocks) /\ id \notin IdsOf(blocks_list)
    /\ IdsOf(blocks_list) \subseteq IdsOf(blocks) \ {NoId}
    /\ processed_saved =>
          Len(blocks_list) + filtered_count =
              Cardinality({k \in 1..Len(blocks) : blocks[k].id # NoId})

\* the run is over: one block could not be fetched, another is in the output
C6_Witness ==
    /\ pc = "done"
    /\ failed_blocks # {}
    /\ Len(blocks_list) = 1
    /\ filtered_count = 0

\* the image request of the iteration failed
DownloadFailed ==
    \/ response.kind \in {"http_error", "url_error", "empty"}
    \/ response.kind = "data" /\ response.write # "ok"

C8_NeverExits == pc # "exited"

\* how far the run is: the phase, then the channel, the page loop, the
\* items received, the block fetched, the block processed
Phase ==
    CASE pc = "start" -> 0
      [] pc \in {"channels", "pages"} -> 1
      [] pc = "blocks" -> 2
      [] pc = "save_raw" -> 3
      [] pc = "begin_process" -> 4
      [] pc \in {"process", "normalize"} -> 5
      [] pc \in {"done", "exited"} -> 6

Position ==
    <<Phase, ci, IF pc = "pages" THEN 1 ELSE 0, blocks_received, bi, pi,
      IF pc = "normalize" THEN 1 ELSE 0>>

LexLess(a, b) ==
    \E i \in 1..Len(a) : a[i] < b[i] /\ \A j \in 1..(i - 1) : a[j] = b[j]

\* C8 as amended: only a failure of the channel list fetch ends the run
\* early.  Once the channel list is fetched, whatever channel page fetch,
\* block fetch or image download fails, the run has a next step until the
\* processed-data file is written, and every step takes it further.
C8_OnlyChannelListFailureAborts ==
    /\ [][/\ pc' = "exited" => pc = "start"
          /\ LexLess(Position, Position')]_vars
    /\ [](pc \notin {"done", "exited"} => ENABLED Next)
    /\ [](pc = "done" => processed_saved)

\* C8 as amended, as a property of the fair run: once the channel list is
\* fetched the run reaches the step that writes the processed-data file.
C8_RunReachesProcessedFile ==
    (pc \notin {"start", "exited"}) ~> (pc = "done" /\ processed_saved)

\* the processed data is written although a block fetch and an image
\* download failed
C8_Witness ==
    /\ pc = "done"
    /\ processed_saved
    /\ failed_blocks # {}
    /\ \E k \in 1..Len(blocks_list) :
          blocks_list[k].image_url /\ blocks_list[k].image_file = None

(***************************************************************************)
(* Properties of generate_typst.py.                                        *)
(***************************************************************************)
\* the number of pages of n blocks: the least g with n <= 4 g
PagesOf(n) ==
    CHOOSE g \in 0..n : n <= cards_per_page * g
                        /\ (g > 0 => n > cards_per_page * (g - 1))

\* the cards grid k holds: those of blocks 4(k-1)+1 .. 4k, as far as there
\* are blocks
CardsOfPage(bs, k) ==
    LET first == cards_per_page * (k - 1) + 1
        last == IF cards_per_page * k < Len(bs) THEN cards_per_page * k
                ELSE Len(bs)
    IN  [j \in 1..(last - first + 1) |-> generate_card(bs[first + j - 1])]

\* C9: for n blocks generate_typst_file emits ceil(n/4) grids, grid k
\* holding the cards of blocks 4k..4k+3 (counted from 0) in input order,
\* with one page break between consecutive grids and none after the last.
C9_GridsAndPageBreaks ==
    pc = "typst_done" =>
        LET g == PagesOf(Len(typst_blocks)) IN
        /\ Len(typst_code) = IF g = 0 THEN 0 ELSE 2 * g - 1
        /\ \A k \in 1..g :
              /\ typst_code[2 * k - 1].kind = "grid"
              /\ typst_code[2 * k - 1].cards = CardsOfPage(typst_blocks, k)
        /\ \A k \in 1..(g - 1) : typst_code[2 * k].kind = "pagebreak"

\* eight blocks are written as two full grids with one page break between
C9_Witness ==
    /\ pc = "typst_done"
    /\ typst_written
    /\ Len(typst_blocks) = 8
    /\ Len(typst_code) = 3
    /\ typst_code[3].kind = "grid"
    /\ Len(typst_code[3].cards) = 4

IsHeading(line) ==
    \/ StartsWith(Strip(line), <<"#", " ">>)
    \/ StartsWith(Strip(line), <<"#", "#", " ">>)
    \/ StartsWith(Strip(line), <<"#", "#", "#", " ">>)

IsBlank(line) == Strip(line) = <<>>

IsListItem(line) ==
    \/ StartsWith(Strip(line), <<"-", " ">>)
    \/ StartsWith(Strip(line), <<"*", " ">>)

IsPlainText(line) == ~IsHeading(line) /\ ~IsBlank(line) /\ ~IsListItem(line)

\* C10: a forced line break is emitted right after a plain text line (not a
\* heading, not blank, not a list item starting with '- ' or '* ') if and
\* only if a next line exists and is neither blank nor a list item; and the
\* output never ends with a forced line break.
C10_BreakIffNextLineIsText ==
    /\ [][(pc = "format_loop" /\ fmt_i' = fmt_i + 1
              /\ IsPlainText(lines[fmt_i])) =>
            ((/\ Len(formatted_lines') = Len(formatted_lines) + 2
              /\ formatted_lines'[Len(formatted_lines')] = LineBreakLine)
             <=>
             (/\ fmt_i < Len(lines)
              /\ ~IsBlank(lines[fmt_i + 1])
              /\ ~IsListItem(lines[fmt_i + 1])))]_vars
    /\ [](pc = "format_done" /\ formatted_lines # <<>> =>
             formatted_lines[Len(formatted_lines)] # LineBreakLine)

(***************************************************************************)
(* Properties of download_image called again.                              *)
(***************************************************************************)
\* the call before left the file it returned in the images directory, with
\* data in it
CallSucceeded ==
    /\ calls >= 1
    /\ downloaded_filename # None
    /\ files[downloaded_filename] = "data"

\* C11: after download_image has succeeded for a block and left a non-empty
\* file, a later call with the same url, block id and source file name
\* returns the same file name without issuing a request, whatever type the
\* magic bytes of the payload named.
C11_RepeatedCallSkipsRequest ==
    [][(CallSucceeded /\ calls' = calls + 1) =>
          /\ downloaded_filename' = downloaded_filename
          /\ response' = NoResponse
          /\ files' = files]_vars

\* C11 for the payloads whose magic bytes name no type or the type of the
\* source file name: the later call returns the same name without a request.
C11_SkipsWhenNameKept ==
    [][(CallSucceeded /\ calls' = calls + 1
          /\ downloaded_filename = <<block.id, image.ext>>) =>
          /\ downloaded_filename' = downloaded_filename
          /\ response' = NoResponse
          /\ files' = files]_vars

(***************************************************************************)
(* Properties of escape_typst_string.                                      *)
(***************************************************************************)
\* the reader of the claim: a backslash followed by a character is read as
\* that character
RECURSIVE Unescape(_)
Unescape(s) ==
    IF s = <<>> THEN <<>>
    ELSE IF Head(s) = "\\" /\ Len(s) >= 2
    THEN <<s[2]>> \o Unescape(SubSeq(s, 3, Len(s)))
    ELSE <<Head(s)>> \o Unescape(Tail(s))

\* C12: un-escaping what escape_typst_string returns, by reading each
\* backslash followed by a character as that character, gives back the
\* argument exactly.
C12_EscapeRoundTrips ==
    pc = "escape_done" => Unescape(escaped) = escape_arg

\* the string #"\ is escaped to \#\"\\
C12_Witness ==
    /\ pc = "escape_done"
    /\ escape_arg = <<"#", "\"", "\\">>
    /\ escaped = <<"\\", "#", "\\", "\"", "\\", "\\">>

(***************************************************************************)
(* Properties of the pagination loop.                                      *)
(***************************************************************************)
\* a step of the run requests a follow-up page
PageRequested == Len(page_requests') > Len(page_requests)

\* C13: for each channel the follow-up pages are requested as 2, 3, ... in
\* order, each at most once; a page is requested only while the items
\* received are fewer than the reported total, and the loop goes on after a
\* page only when the page held items and the total is still not reached;
\* the follow-up requests of a channel number at most the total less the
\* items of the first page, plus one.
C13_PaginationBounded ==
    /\ [](\A k \in 1..Len(page_requests) : page_requests[k] = k + 1)
    /\ [](pc = "pages" =>
             /\ blocks_received < total_blocks
             /\ page = Len(page_requests) + 2
             /\ Len(page_requests) <= blocks_received - first_received)
    /\ [][PageRequested =>
             /\ pc = "pages"
             /\ blocks_received < total_blocks
             /\ page_requests' = Append(page_requests, page)
             /\ Len(page_requests') <= (total_blocks - first_received) + 1]_vars
    /\ [][(pc = "pages" /\ pc' = "pages") =>
             /\ blocks_received' > blocks_received
             /\ blocks_received' < total_blocks]_vars

\* pages 2 and 3 of a channel were requested, the last one ending the loop
C13_Witness ==
    /\ pc # "pages"
    /\ page_requests = <<2, 3>>

=============================================================================
